---------------------------- MODULE Spec2Model ----------------------------
(***************************************************************************)
(* A model of godoc-mcp (server.go): the get_doc request handler, the      *)
(* resolver, the temporary-project provisioner, the go doc cache and the   *)
(* paginator.                                                              *)
(*                                                                         *)
(* Strings are sequences of one-character strings, so that prefix tests,   *)
(* joins and splits are computed as the Go code computes them.             *)
(***************************************************************************)
EXTENDS Integers, Sequences, FiniteSets, TLC

(***************************************************************************)
(* Bounds of the model and scaled program constants.                       *)
(***************************************************************************)

\* The clock runs from 0 to MaxTime.
MaxTime == 2

\* The longest directory name and argument given to the key derivation, and
\* the longest argument vector.
MaxKeyStr == 2
MaxArgs == 2

\* The longest content given to paginate, and the page sizes and page numbers
\* asked for (a reader goes on to the page after the last).
\* The longest path given to validatePath.
MaxRefLen == 5

\* The most pieces a go.mod given to readModuleName is made of.
MaxPieces == 5

\* The most pieces an output given to formatGoDocError is made of.
MaxOutPieces == 3

MaxContentLen == 4
MaxPageSize == 3
MaxImportLen == 4
MaxPage == MaxContentLen + 2
PageSizes == (0 - 1)..MaxPageSize
Pages == (0 - 1)..MaxPage

\* server.go:20 sets cacheTTL to 5 minutes; the model counts clock ticks and
\* scales it down.  Every formula is stated in terms of cacheTTL.
cacheTTL == 2

\* server.go:21 sets maxCacheSize to 500; the model scales it down.  Every
\* formula is stated in terms of maxCacheSize.
maxCacheSize == 2

\* The concurrent requests.
Reqs == {"r1", "r2"}

\* No request holds the mutex.
NoReq == "none"

(***************************************************************************)
(* Strings.                                                                *)
(***************************************************************************)

EmptyStr == << >>

\* strings.HasPrefix
HasPrefix(s, p) ==
  /\ Len(s) >= Len(p)
  /\ SubSeq(s, 1, Len(p)) = p

RECURSIVE Join(_, _)
\* strings.Join
Join(elems, sep) ==
  IF Len(elems) = 0 THEN EmptyStr
  ELSE IF Len(elems) = 1 THEN elems[1]
  ELSE elems[1] \o sep \o Join(Tail(elems), sep)

\* The first index of character c in s, or 0.
IndexOf(s, c) ==
  IF \E i \in 1..Len(s) : s[i] = c
  THEN CHOOSE i \in 1..Len(s) : s[i] = c /\ \A j \in 1..(i - 1) : s[j] # c
  ELSE 0

RECURSIVE Split(_, _)
\* strings.Split, on a one-character separator
Split(s, c) ==
  LET i == IndexOf(s, c) IN
  IF i = 0 THEN <<s>>
  ELSE <<SubSeq(s, 1, i - 1)>> \o Split(SubSeq(s, i + 1, Len(s)), c)

DigitChars == <<"0", "1", "2", "3", "4", "5", "6", "7", "8", "9">>

RECURSIVE Itoa(_)
\* The %d of fmt.Sprintf
Itoa(n) ==
  IF n < 0 THEN <<"-">> \o Itoa(0 - n)
  ELSE IF n < 10 THEN <<DigitChars[n + 1]>>
  ELSE Itoa(n \div 10) \o <<DigitChars[(n % 10) + 1]>>

\* Go's integer division, which truncates toward zero (b # 0).
GoDiv(a, b) ==
  LET abs(x) == IF x < 0 THEN 0 - x ELSE x
      q == abs(a) \div abs(b)
  IN  IF (a < 0) = (b < 0) THEN q ELSE 0 - q

(***************************************************************************)
(* Paths, the files the handler reads, and validatePath.                   *)
(***************************************************************************)

\* strings.TrimPrefix
TrimPrefix(s, p) == IF HasPrefix(s, p) THEN SubSeq(s, Len(p) + 1, Len(s)) ELSE s

RECURSIVE CleanSegs(_, _, _)
\* The segments path.Clean keeps: empty and "." segments go, ".." takes the
\* segment before it away, stays in front of a relative path and goes in
\* front of a rooted one.
CleanSegs(segs, out, rooted) ==
  IF segs = << >> THEN out
  ELSE
    LET seg == Head(segs)
        rest == Tail(segs)
    IN  IF seg = EmptyStr \/ seg = <<".">> THEN CleanSegs(rest, out, rooted)
        ELSE IF seg = <<".", ".">>
        THEN IF out # << >> /\ out[Len(out)] # <<".", ".">>
             THEN CleanSegs(rest, SubSeq(out, 1, Len(out) - 1), rooted)
             ELSE IF rooted THEN CleanSegs(rest, out, rooted)
             ELSE CleanSegs(rest, Append(out, seg), rooted)
        ELSE CleanSegs(rest, Append(out, seg), rooted)

\* path.Clean
Clean(p) ==
  IF p = EmptyStr THEN <<".">>
  ELSE
    LET rooted == p[1] = "/"
        kept == Join(CleanSegs(Split(p, "/"), << >>, rooted), <<"/">>)
    IN  IF rooted THEN <<"/">> \o kept
        ELSE IF kept = EmptyStr THEN <<".">> ELSE kept

\* path.Join and, on this platform, filepath.Join, of two elements
PathJoin(a, b) ==
  IF a = EmptyStr /\ b = EmptyStr THEN EmptyStr
  ELSE IF a = EmptyStr THEN Clean(b)
  ELSE IF b = EmptyStr THEN Clean(a)
  ELSE Clean(a \o <<"/">> \o b)

Whitespace == {" ", "\t", "\n", "\r"}

RECURSIVE TrimLeft(_)
TrimLeft(s) ==
  IF s # << >> /\ Head(s) \in Whitespace THEN TrimLeft(Tail(s)) ELSE s

RECURSIVE TrimRight(_)
TrimRight(s) ==
  IF s # << >> /\ s[Len(s)] \in Whitespace
  THEN TrimRight(SubSeq(s, 1, Len(s) - 1)) ELSE s

\* strings.TrimSpace
TrimSpace(s) == TrimRight(TrimLeft(s))

RECURSIVE Fields(_)
\* strings.Fields
Fields(s) ==
  LET t == TrimLeft(s) IN
  IF t = << >> THEN << >>
  ELSE
    LET stop == IF \E i \in 1..Len(t) : t[i] \in Whitespace
                THEN CHOOSE i \in 1..Len(t) :
                       t[i] \in Whitespace /\ \A j \in 1..(i - 1) : t[j] \notin Whitespace
                ELSE Len(t) + 1
    IN  <<SubSeq(t, 1, stop - 1)>> \o Fields(SubSeq(t, stop, Len(t)))

\* The directories and files that exist apart from the temporary ones: a
\* module directory /w, a directory /e without go.mod, a plain file /f, a
\* directory /g whose go.mod has no module line, and a module directory /v
\* whose module line is indented and followed by a comment.
DirW == <<"/", "w">>
DirE == <<"/", "e">>
FileF == <<"/", "f">>
DirN == <<"/", "n">>
DirG == <<"/", "g">>
DirV == <<"/", "v">>
GoModName == <<"g", "o", ".", "m", "o", "d">>
ModuleKeyword == <<"m", "o", "d", "u", "l", "e", " ">>

StaticDirs == {DirW, DirE, DirG, DirV}

StaticFiles ==
  (FileF :> <<"x">>)
  @@ (PathJoin(DirW, GoModName) :>
        <<"g", "o", " ", "1", "\n">> \o ModuleKeyword \o <<"m", "\n">>)
  @@ (PathJoin(DirG, GoModName) :> <<"g", "o", " ", "1", "\n">>)
  @@ (PathJoin(DirV, GoModName) :>
        <<"\t">> \o ModuleKeyword \o <<"x", "/", "y", " ", "/", "/", "c", "\n">>)

\* The directories that hold no Go files themselves and the subdirectories
\* of each that hold a Go package: /w, with a package in /w/s.
PackagesBelow == (DirW :> << <<"s">> >>)

\* os.Stat, as handleGetDoc uses it
Stat(p) ==
  IF p \in StaticDirs THEN "dir"
  ELSE IF p \in DOMAIN StaticFiles THEN "file" ELSE "none"

RECURSIVE FirstModule(_)
\* server.go:258-267
FirstModule(lines) ==
  IF lines = << >> THEN [err |-> "no module declaration", name |-> EmptyStr]
  ELSE
    LET line == TrimSpace(Head(lines)) IN
    IF ~HasPrefix(line, ModuleKeyword) THEN FirstModule(Tail(lines))
    ELSE IF Len(Fields(line)) >= 2
    THEN [err |-> "", name |-> Fields(line)[2]]
    ELSE FirstModule(Tail(lines))

\* server.go:252-270, with the files there are
readModuleNameIn(files, goModPath) ==
  IF goModPath \notin DOMAIN files
  THEN [err |-> "failed to read", name |-> EmptyStr]
  ELSE FirstModule(Split(files[goModPath], "\n"))

\* server.go:252-270
readModuleName(goModPath) == readModuleNameIn(StaticFiles, goModPath)

\* What validatePath returns: the path, the list of subdirectories (nil in
\* every return of the code), the error, and the go.mod files read on the way.
Resolved(path, reads) ==
  [path |-> path, subDirs |-> << >>, err |-> "", reads |-> reads]

Unresolved(err, reads) ==
  [path |-> EmptyStr, subDirs |-> << >>, err |-> err, reads |-> reads]

\* A relative path that resolves to the module itself, whatever follows.
resolveRelativeToModule(pkgPath, wd) ==
  LET goMod == PathJoin(wd, GoModName)
      mod == readModuleName(goMod)
  IN  IF wd = EmptyStr THEN Unresolved("working_dir is required", << >>)
      ELSE IF mod.err # ""
      THEN Unresolved("failed to read go.mod in working directory", <<goMod>>)
      ELSE Resolved(mod.name, <<goMod>>)

\* server.go:216-231
resolveRelative(pkgPath, wd) ==
  IF wd = EmptyStr THEN Unresolved("working_dir is required", << >>)
  ELSE
    LET goMod == PathJoin(wd, GoModName)
        mod == readModuleName(goMod)
    IN  IF mod.err # ""
        THEN Unresolved("failed to read go.mod in working directory", <<goMod>>)
        ELSE IF pkgPath = <<".">> THEN Resolved(mod.name, <<goMod>>)
        ELSE Resolved(PathJoin(mod.name, TrimPrefix(pkgPath, <<".", "/">>)),
                      <<goMod>>)

\* An absolute path that is resolved whatever the working directory.
resolveAbsoluteAnywhere(pkgPath, wd) ==
  LET goMod == PathJoin(pkgPath, GoModName)
      mod == readModuleName(goMod)
  IN  IF mod.err # "" THEN Unresolved("failed to read go.mod", <<goMod>>)
      ELSE Resolved(mod.name, <<goMod>>)

\* server.go:234-245
resolveAbsolute(pkgPath, wd) ==
  IF wd # EmptyStr /\ pkgPath # wd
  THEN Unresolved("absolute path must match working directory", << >>)
  ELSE
    LET goMod == PathJoin(pkgPath, GoModName)
        mod == readModuleName(goMod)
    IN  IF mod.err # "" THEN Unresolved("failed to read go.mod", <<goMod>>)
        ELSE Resolved(mod.name, <<goMod>>)

\* An import path that is cleaned on the way.
resolveImportCleaned(pkgPath, wd) == Resolved(Clean(pkgPath), << >>)

\* server.go:247-248
resolveImport(pkgPath, wd) == Resolved(pkgPath, << >>)

\* server.go:215-249
validatePath(pkgPath, wd) ==
  IF HasPrefix(pkgPath, <<".">>) THEN resolveRelative(pkgPath, wd)
  ELSE IF HasPrefix(pkgPath, <<"/">>) THEN resolveAbsolute(pkgPath, wd)
  ELSE resolveImport(pkgPath, wd)

\* A test that looks for a dot anywhere in the path.
isStdLibNoDotAnywhere(pkg) == \A i \in 1..Len(pkg) : pkg[i] # "."

\* server.go:383-386
isStdLib(pkg) ==
  LET first == Split(pkg, "/")[1] IN \A i \in 1..Len(first) : first[i] # "."

\* server.go:26-32
allowedFlags ==
  { <<"-", "a", "l", "l">>, <<"-", "s", "r", "c">>, <<"-", "u">>,
    <<"-", "s", "h", "o", "r", "t">>, <<"-", "c">> }

(***************************************************************************)
(* The cache key of runGoDoc.                                              *)
(***************************************************************************)

\* server.go:308
cacheKey(dir, argv) ==
  dir \o <<"|">> \o Join(argv, <<"|">>)

(***************************************************************************)
(* The inputs of direct runGoDoc calls, and the extractor's outputs.       *)
(***************************************************************************)

\* (working directory, argument vector) pairs: three different keys, and two
\* different argument vectors with one key.
CallInputs ==
  { [dir |-> <<"d">>, argv |-> << <<"x">> >>],
    [dir |-> <<"d">>, argv |-> << <<"y">> >>],
    [dir |-> <<"d">>, argv |-> << <<"x">>, <<"y">> >>],
    [dir |-> <<"d">>, argv |-> << <<"x", "|", "y">> >>] }

\* What a successful go doc run can print.
Contents == { <<"a">>, <<"a", "\n", "b">> }

NoRet == [kind |-> "none", how |-> "none", content |-> EmptyStr, time |-> 0,
          followed |-> FALSE]

NoPrev == [ok |-> {}, failed |-> FALSE]

VARIABLES
  cache,       \* gs.cache: key -> [content, timestamp]
  mu,          \* gs.mu: the request holding it, or NoReq
  now,         \* the clock
  pc,          \* each request's position
  workingDir,  \* runGoDoc's workingDir
  args,        \* runGoDoc's args
  doc,         \* runGoDoc's doc.content / content
  ret,         \* runGoDoc's return value, the line it logged and, for a
               \* miss, when it inserted
  cmds,        \* the external commands the request has started
  prev         \* history, taken when the call is issued: ok, what the
               \* identical calls that have inserted an entry returned, and
               \* when; failed, an identical call failed and this is the
               \* first call issued after it

VARIABLES
  fn,          \* the function a function-level specification applies
  input,       \* its arguments
  output,      \* its result
  acc          \* what a reader of successive pages has collected

VARIABLES
  req,         \* handleGetDoc's request
  tempDir,     \* the directory os.MkdirTemp gave the request
  dirs,        \* the temporary directories that exist
  deferred,    \* the directories handleGetDoc has deferred the removal of
  hres         \* what handleGetDoc returned

engineVars == <<cache, mu, now, pc, workingDir, args, doc, ret, cmds, prev>>

pureVars == <<fn, input, output, acc>>

handlerVars == <<req, tempDir, dirs, deferred, hres>>

\* What the steps of runGoDoc leave alone.
restVars == <<pureVars, handlerVars>>

vars == <<engineVars, pureVars, handlerVars>>

NoValue == [none |-> TRUE]

NoResult == [kind |-> "none", msg |-> "", text |-> EmptyStr]

Key(r) == cacheKey(workingDir[r], args[r])

Size == Cardinality(DOMAIN cache)

\* An expiry test that lets an entry live one tick less than cacheTTL.
LiveShort(entry) == now - entry.timestamp < cacheTTL - 1

\* An expiry test that still serves an entry whose age is exactly cacheTTL.
LiveLong(entry) == now - entry.timestamp <= cacheTTL

\* time.Since(doc.timestamp) < cacheTTL (server.go:312)
Live(entry) == now - entry.timestamp < cacheTTL

\* delete(gs.cache, k)
Delete(c, k) == [j \in DOMAIN c \ {k} |-> c[j]]

\* An insert that keeps the entry a key already has.
StoreIfAbsent(c, k, e) ==
  [j \in DOMAIN c \cup {k} |-> IF j \in DOMAIN c THEN c[j] ELSE e]

\* gs.cache[k] = e
Store(c, k, e) == [j \in DOMAIN c \cup {k} |-> IF j = k THEN e ELSE c[j]]

\* The keys the scan of server.go:341-346 can end on: whatever order the map
\* is ranged in, a key whose timestamp no other entry's is Before.
OldestKeys(c) ==
  {k \in DOMAIN c : \A j \in DOMAIN c : c[k].timestamp <= c[j].timestamp}

\* A capacity test that lets the cache grow one past maxCacheSize.
CacheFullOffByOne(c) == Cardinality(DOMAIN c) > maxCacheSize

\* len(gs.cache) >= maxCacheSize (server.go:338)
CacheFull(c) == Cardinality(DOMAIN c) >= maxCacheSize

\* server.go:338-348: the caches the eviction can leave.
AfterEvict(c) ==
  IF CacheFull(c) THEN {Delete(c, k) : k \in OldestKeys(c)} ELSE {c}

EngineInit ==
  /\ cache = << >>
  /\ mu = NoReq
  /\ now = 0
  /\ pc = [r \in Reqs |-> "idle"]
  /\ workingDir = [r \in Reqs |-> EmptyStr]
  /\ args = [r \in Reqs |-> << >>]
  /\ doc = [r \in Reqs |-> EmptyStr]
  /\ ret = [r \in Reqs |-> NoRet]
  /\ cmds = [r \in Reqs |-> << >>]
  /\ prev = [r \in Reqs |-> NoPrev]
  /\ req = [r \in Reqs |-> NoValue]
  /\ tempDir = [r \in Reqs |-> EmptyStr]
  /\ dirs = {}
  /\ deferred = [r \in Reqs |-> << >>]
  /\ hres = [r \in Reqs |-> NoResult]

PureIdle ==
  /\ fn = "none"
  /\ input = NoValue
  /\ output = NoValue
  /\ acc = << >>

\* The server after newGodocServer (server.go:63-66): an empty cache.
Init ==
  /\ EngineInit
  /\ PureIdle

\* The clock advances.
Tick ==
  /\ now < MaxTime
  /\ now' = now + 1
  /\ UNCHANGED <<cache, mu, pc, workingDir, args, doc, ret, cmds, prev, restVars>>

(***************************************************************************)
(* runGoDoc (server.go:307-354).  A critical section is two steps: the     *)
(* Lock, and what is done before the Unlock.                               *)
(***************************************************************************)

\* The requests other than r that hold the result of a call of runGoDoc
\* with this working directory and these arguments.  A held failure is marked
\* "followed" once a later call with the same inputs has been issued.
Returned(r, dir, argv) ==
  {q \in Reqs \ {r} : pc[q] = "ret" /\ workingDir[q] = dir /\ args[q] = argv}

\* A call of runGoDoc begins.
Enter(r, dir, argv) ==
  /\ workingDir' = [workingDir EXCEPT ![r] = dir]
  /\ args' = [args EXCEPT ![r] = argv]
  /\ prev' = [prev EXCEPT ![r] =
       [ok |-> {[content |-> ret[q].content, time |-> ret[q].time] : q \in
                 {p \in Returned(r, dir, argv) : ret[p].how = "miss"}},
        failed |-> \E q \in Returned(r, dir, argv) :
                     ret[q].kind = "err" /\ ~ret[q].followed]]
  /\ ret' = [q \in Reqs |->
       IF q \in Returned(r, dir, argv) /\ ret[q].kind = "err"
       THEN [ret[q] EXCEPT !.followed = TRUE] ELSE ret[q]]
  /\ pc' = [pc EXCEPT ![r] = "lock1"]

\* runGoDoc returns (content, error).
Leave(r, kind, how, content) ==
  /\ ret' = [ret EXCEPT ![r] =
       [kind |-> kind, how |-> how, content |-> content,
        time |-> IF how = "miss" THEN now ELSE 0,
        followed |-> FALSE]]
  /\ pc' = [pc EXCEPT ![r] = "ret"]

\* A direct call, as the tests make them.
Call(r) ==
  /\ pc[r] = "idle"
  /\ \E in \in CallInputs : Enter(r, in.dir, in.argv)
  /\ UNCHANGED <<cache, mu, now, doc, cmds, restVars>>

\* A Lock that does not wait for the mutex to be free.
Lock1Barging(r) ==
  /\ pc[r] = "lock1"
  /\ mu' = r
  /\ pc' = [pc EXCEPT ![r] = "lookup"]
  /\ UNCHANGED <<cache, now, workingDir, args, doc, ret, cmds, prev, restVars>>

\* gs.mu.Lock() (server.go:310)
Lock1(r) ==
  /\ pc[r] = "lock1"
  /\ mu = NoReq
  /\ mu' = r
  /\ pc' = [pc EXCEPT ![r] = "lookup"]
  /\ UNCHANGED <<cache, now, workingDir, args, doc, ret, cmds, prev, restVars>>

\* A hit that stamps the entry it serves with the time of the hit.
LookupHitRefreshing(r) ==
  /\ pc[r] = "lookup"
  /\ Key(r) \in DOMAIN cache
  /\ Live(cache[Key(r)])
  /\ doc' = [doc EXCEPT ![r] = cache[Key(r)].content]
  /\ cache' = Store(cache, Key(r),
                    [content |-> cache[Key(r)].content, timestamp |-> now])
  /\ mu' = NoReq
  /\ Leave(r, "ok", "hit", cache[Key(r)].content)
  /\ UNCHANGED <<now, workingDir, args, cmds, prev, restVars>>

\* server.go:311-315: a live entry is found; unlock, log the hit, return the
\* entry's content.
LookupHit(r) ==
  /\ pc[r] = "lookup"
  /\ Key(r) \in DOMAIN cache
  /\ Live(cache[Key(r)])
  /\ doc' = [doc EXCEPT ![r] = cache[Key(r)].content]
  /\ mu' = NoReq
  /\ Leave(r, "ok", "hit", cache[Key(r)].content)
  /\ UNCHANGED <<cache, now, workingDir, args, cmds, prev, restVars>>

\* server.go:311-319: an expired entry is found and deleted; unlock.
LookupExpired(r) ==
  /\ pc[r] = "lookup"
  /\ Key(r) \in DOMAIN cache
  /\ ~Live(cache[Key(r)])
  /\ cache' = Delete(cache, Key(r))
  /\ mu' = NoReq
  /\ pc' = [pc EXCEPT ![r] = "exec"]
  /\ UNCHANGED <<now, workingDir, args, doc, ret, cmds, prev, restVars>>

\* server.go:311, 319: no entry; unlock.
LookupMiss(r) ==
  /\ pc[r] = "lookup"
  /\ Key(r) \notin DOMAIN cache
  /\ mu' = NoReq
  /\ pc' = [pc EXCEPT ![r] = "exec"]
  /\ UNCHANGED <<cache, now, workingDir, args, doc, ret, cmds, prev, restVars>>

\* server.go:321-329: go doc is started with args in workingDir.
StartGoDoc(r) ==
  /\ pc[r] = "exec"
  /\ cmds' = [cmds EXCEPT ![r] =
       Append(@, [cmd |-> "doc", dir |-> workingDir[r], argv |-> args[r]])]
  /\ pc' = [pc EXCEPT ![r] = "wait"]
  /\ UNCHANGED <<cache, mu, now, workingDir, args, doc, ret, prev, restVars>>

\* A failed run that is not returned at once: its (empty) content goes on to
\* be inserted.
GoDocFailCached(r) ==
  /\ pc[r] = "wait"
  /\ doc' = [doc EXCEPT ![r] = EmptyStr]
  /\ pc' = [pc EXCEPT ![r] = "lock2"]
  /\ UNCHANGED <<cache, mu, now, workingDir, args, ret, cmds, prev, restVars>>

\* A failed run that is started again instead of being returned.
GoDocFailRetried(r) ==
  /\ pc[r] = "wait"
  /\ pc' = [pc EXCEPT ![r] = "exec"]
  /\ UNCHANGED <<cache, mu, now, workingDir, args, doc, ret, cmds, prev, restVars>>

\* server.go:329-332: go doc exits non-zero or is killed at the timeout.
GoDocFail(r) ==
  /\ pc[r] = "wait"
  /\ Leave(r, "err", "fail", EmptyStr)
  /\ UNCHANGED <<cache, mu, now, workingDir, args, doc, cmds, prev, restVars>>

\* server.go:329-334: go doc exits with status 0 and its output.
GoDocOK(r) ==
  /\ pc[r] = "wait"
  /\ \E out \in Contents : doc' = [doc EXCEPT ![r] = out]
  /\ pc' = [pc EXCEPT ![r] = "lock2"]
  /\ UNCHANGED <<cache, mu, now, workingDir, args, ret, cmds, prev, restVars>>

\* gs.mu.Lock() (server.go:336)
Lock2(r) ==
  /\ pc[r] = "lock2"
  /\ mu = NoReq
  /\ mu' = r
  /\ pc' = [pc EXCEPT ![r] = "store"]
  /\ UNCHANGED <<cache, now, workingDir, args, doc, ret, cmds, prev, restVars>>

\* An insert that returns without the Unlock of server.go:350.
InsertHoldingLock(r) ==
  /\ pc[r] = "store"
  /\ \E c \in AfterEvict(cache) :
       cache' = Store(c, Key(r), [content |-> doc[r], timestamp |-> now])
  /\ mu' = mu
  /\ Leave(r, "ok", "miss", doc[r])
  /\ UNCHANGED <<now, workingDir, args, doc, cmds, prev, restVars>>

\* server.go:337-353: evict the oldest entry if the cache is full, insert the
\* new entry; unlock, log the miss, return the content.
Insert(r) ==
  /\ pc[r] = "store"
  /\ \E c \in AfterEvict(cache) :
       cache' = Store(c, Key(r), [content |-> doc[r], timestamp |-> now])
  /\ mu' = NoReq
  /\ Leave(r, "ok", "miss", doc[r])
  /\ UNCHANGED <<now, workingDir, args, doc, cmds, prev, restVars>>

\* The caller of a direct call has taken its result.
Finish(r) ==
  /\ pc[r] = "ret"
  /\ pc' = [pc EXCEPT ![r] = "idle"]
  /\ workingDir' = [workingDir EXCEPT ![r] = EmptyStr]
  /\ args' = [args EXCEPT ![r] = << >>]
  /\ doc' = [doc EXCEPT ![r] = EmptyStr]
  /\ ret' = [ret EXCEPT ![r] = NoRet]
  /\ cmds' = [cmds EXCEPT ![r] = << >>]
  /\ prev' = [prev EXCEPT ![r] = NoPrev]
  /\ UNCHANGED <<cache, mu, now, restVars>>

runGoDoc(r) ==
  \/ Lock1(r) \/ LookupHit(r) \/ LookupExpired(r) \/ LookupMiss(r)
  \/ StartGoDoc(r) \/ GoDocFail(r) \/ GoDocOK(r) \/ Lock2(r) \/ Insert(r)

Next ==
  \/ Tick
  \/ \E r \in Reqs : Call(r) \/ runGoDoc(r) \/ Finish(r)

Spec == Init /\ [][Next]_vars


(***************************************************************************)
(* The key derivation alone, applied to two (directory, argument vector)   *)
(* pairs.                                                                  *)
(***************************************************************************)

\* The strings over an alphabet, up to a length.
StrsUpTo(alphabet, n) == UNION {[1..k -> alphabet] : k \in 0..n}

\* Directory names and arguments: an ordinary character and the separator.
KeyStrs == StrsUpTo({"a", "|"}, MaxKeyStr)

KeyArgVecs == UNION {[1..k -> KeyStrs] : k \in 1..MaxArgs}

KeyQueries == [dir : KeyStrs, argv : KeyArgVecs]

KeyInit ==
  /\ EngineInit
  /\ fn = "cacheKey"
  /\ input \in [a : KeyQueries, b : KeyQueries]
  /\ output = NoValue
  /\ acc = << >>

\* Both queries' keys are derived (server.go:308).
ApplyCacheKey ==
  /\ fn = "cacheKey"
  /\ output = NoValue
  /\ output' = [a |-> cacheKey(input.a.dir, input.a.argv),
                b |-> cacheKey(input.b.dir, input.b.argv)]
  /\ UNCHANGED <<fn, input, acc, engineVars, handlerVars>>

KeyNext == ApplyCacheKey

SpecKey == KeyInit /\ [][KeyNext]_vars

(***************************************************************************)
(* paginate (server.go:185-212).                                           *)
(***************************************************************************)

Panic == [kind |-> "panic", text |-> EmptyStr]

\* A page count that rounds down.
totalPagesFloor(totalLines, pageSize) ==
  LET t == GoDiv(totalLines, pageSize) IN IF t < 1 THEN 1 ELSE t

\* server.go:192-195
totalPagesOf(totalLines, pageSize) ==
  LET t == GoDiv(totalLines + pageSize - 1, pageSize) IN IF t < 1 THEN 1 ELSE t

\* A page end that is one line short.
pageEndShort(start, pageSize, totalLines) ==
  IF start + pageSize - 1 > totalLines THEN totalLines ELSE start + pageSize - 1

\* server.go:202-205
pageEnd(start, pageSize, totalLines) ==
  IF start + pageSize > totalLines THEN totalLines ELSE start + pageSize

\* server.go:208-209
metadata(page, totalPages, first, last, totalLines) ==
  <<"P", "a", "g", "e", " ">> \o Itoa(page)
    \o <<" ", "o", "f", " ">> \o Itoa(totalPages)
    \o <<" ", "(", "s", "h", "o", "w", "i", "n", "g", " ",
         "l", "i", "n", "e", "s", " ">> \o Itoa(first)
    \o <<"-">> \o Itoa(last)
    \o <<" ", "o", "f", " ">> \o Itoa(totalLines) \o <<")">>

\* server.go:198
pageError(page, totalPages) ==
  <<"p", "a", "g", "e", " ">> \o Itoa(page)
    \o <<" ", "e", "x", "c", "e", "e", "d", "s", " ", "t", "o", "t", "a", "l",
         " ", "p", "a", "g", "e", "s", " ">> \o Itoa(totalPages)

\* A clamp that lets page 0 through.
clampPageBelowZero(page) == IF page < 0 THEN 1 ELSE page

\* server.go:186-188
clampPage(page) == IF page < 1 THEN 1 ELSE page

\* server.go:185-212.  A division by zero (pageSize = 0) and a slice whose
\* bounds are out of range (pageSize < 0) panic.
paginate(content, pageArg, pageSize) ==
  LET page == clampPage(pageArg)
      lines == Split(content, "\n")
      totalLines == Len(lines)
  IN  IF pageSize = 0 THEN Panic
      ELSE
        LET totalPages == totalPagesOf(totalLines, pageSize)
            start == (page - 1) * pageSize
            end == pageEnd(start, pageSize, totalLines)
        IN  IF page > totalPages
            THEN [kind |-> "err", text |-> pageError(page, totalPages)]
            ELSE IF ~(0 <= start /\ start <= end /\ end <= totalLines)
            THEN Panic
            ELSE [kind |-> "ok",
                  text |-> metadata(page, totalPages, start + 1, end, totalLines)
                             \o <<"\n", "\n">>
                             \o Join(SubSeq(lines, start + 1, end), <<"\n">>)]

(***************************************************************************)
(* A reader of pages: it asks for a page and, given one, for the next.     *)
(***************************************************************************)

PageContents == StrsUpTo({"a", "b", "\n"}, MaxContentLen)

PageInit ==
  /\ EngineInit
  /\ fn = "paginate"
  /\ input \in [content : PageContents, first : Pages, page : Pages,
                pageSize : PageSizes]
  /\ input.first = input.page
  /\ output = NoValue
  /\ acc = << >>

\* The page is asked for.
ApplyPaginate ==
  /\ fn = "paginate"
  /\ output = NoValue
  /\ output' = paginate(input.content, input.page, input.pageSize)
  /\ UNCHANGED <<fn, input, acc, engineVars, handlerVars>>

\* The page is kept and the next one is wanted.
NextPage ==
  /\ fn = "paginate"
  /\ output # NoValue
  /\ output.kind = "ok"
  /\ input.page < MaxPage
  /\ acc' = Append(acc, output.text)
  /\ input' = [input EXCEPT !.page = @ + 1]
  /\ output' = NoValue
  /\ UNCHANGED <<fn, engineVars, handlerVars>>

PageNext == ApplyPaginate \/ NextPage

SpecPaginate == PageInit /\ [][PageNext]_vars

(***************************************************************************)
(* handleGetDoc (server.go:110-182) and createTempProject (274-304).  An   *)
(* external command that fails stands for one that exits non-zero and for  *)
(* one that is killed at its timeout or at the request's deadline.         *)
(***************************************************************************)

\* The requests that go through handleGetDoc.
HReqs == {"r1"}

\* The names os.MkdirTemp can give.
TempNames == { <<"/", "t", "1">>, <<"/", "t", "2">> }

PathIo == <<"i", "o">>
PathExt == <<"a", ".", "b">>
PathFlag == <<"-", "C">>
TargetR == <<"R">>
FlagU == <<"-", "u">>
TempModule == <<"g", "o", "d", "o", "c", "-", "t", "e", "m", "p">>

\* A request with the defaults for what is not given.
Request(path, target, wd, flags) ==
  [hasPath |-> TRUE, path |-> path, target |-> target, workingDir |-> wd,
   cmdFlags |-> flags, page |-> 1, pageSize |-> 2]

\* The requests: for a standard package with and without a working
\* directory, and each page of it at each page size; for an external package
\* with a flag and a target; with the path missing; with flags off the list;
\* with a working directory that is absent, a file, or without go.mod; with
\* relative and absolute paths; with a path and a target that begin with "-".
RequestInputs ==
  {Request(PathIo, EmptyStr, EmptyStr, << >>),
   Request(PathExt, TargetR, EmptyStr, <<FlagU>>)}
  \cup
  [hasPath : {TRUE}, path : {PathIo}, target : {EmptyStr},
   workingDir : {DirW}, cmdFlags : {<< >>}, page : 1..3, pageSize : 0..2]
  \cup
  [hasPath : {FALSE}, path : {EmptyStr}, target : {EmptyStr},
   workingDir : {EmptyStr}, cmdFlags : {<< >>, <<PathFlag>>},
   page : {1}, pageSize : {2}]
  \cup
  {Request(PathIo, EmptyStr, wd, flags) :
     wd \in {EmptyStr, DirW}, flags \in {<<PathFlag>>, <<FlagU, PathFlag>>}}
  \cup
  {Request(PathIo, EmptyStr, DirN, << >>),
   Request(PathIo, EmptyStr, FileF, << >>),
   Request(<<".">>, EmptyStr, DirE, << >>)}
  \cup
  {Request(path, EmptyStr, wd, << >>) :
     path \in {<<".">>, DirW}, wd \in {EmptyStr, DirW}}
  \cup
  {Request(PathFlag, EmptyStr, DirW, << >>),
   Request(PathIo, PathFlag, DirW, << >>)}

\* How a command that does not succeed ends: it exits with a non-zero status,
\* or it is killed when its context's deadline passes (server.go:280, 292).
CommandErrors == { <<"exit status 1">>, <<"signal: killed">> }

\* What a failed go mod init or go get has printed (CombinedOutput).
CommandOutputs == { EmptyStr, <<"e">> }

\* server.go:287
initError(err, out) ==
  <<"failed to initialize go.mod: ">> \o err \o <<"\noutput: ">> \o out

\* server.go:299
getError(importPath, err, out) ==
  <<"failed to get package ">> \o importPath \o <<": ">> \o err
    \o <<"\noutput: ">> \o out

\* Every flag is taken for allowed.
FlagAllowedAny(f) == TRUE

\* server.go:132
FlagAllowed(f) == f \in allowedFlags

\* A removal that removes nothing.
RemoveNothing(fs, d) == fs

\* os.RemoveAll of a temporary directory
RemoveAll(fs, d) == fs \ {d}

\* server.go:142, 150: the resolved pkgPath
ResolvedPath(r) == validatePath(req[r].path, req[r].workingDir).path

\* server.go:153-160: the handler's workingDir after provisioning
HandlerDir(r) ==
  IF req[r].workingDir = EmptyStr THEN tempDir[r] ELSE req[r].workingDir

\* server.go:163-168
BuildArgs(r) ==
  req[r].cmdFlags \o <<ResolvedPath(r)>>
    \o (IF req[r].target # EmptyStr THEN <<req[r].target>> ELSE << >>)

\* handleGetDoc returns; what it deferred runs next.
Return(r, kind, msg, text) ==
  /\ hres' = [hres EXCEPT ![r] = [kind |-> kind, msg |-> msg, text |-> text]]
  /\ pc' = [pc EXCEPT ![r] = "unwind"]

\* A request arrives.
HandleGetDoc(r) ==
  /\ pc[r] = "idle"
  /\ \E in \in RequestInputs : req' = [req EXCEPT ![r] = in]
  /\ pc' = [pc EXCEPT ![r] = "check"]
  /\ UNCHANGED <<cache, mu, now, workingDir, args, doc, ret, cmds, prev,
                 pureVars, tempDir, dirs, deferred, hres>>

PathGiven(r) == req[r].hasPath

WorkingDirGood(r) ==
  req[r].workingDir = EmptyStr \/ Stat(req[r].workingDir) = "dir"

FlagsGood(r) ==
  \A i \in 1..Len(req[r].cmdFlags) : FlagAllowed(req[r].cmdFlags[i])

\* server.go:111-114
RejectMissingPath(r) ==
  /\ pc[r] = "check"
  /\ ~PathGiven(r)
  /\ Return(r, "error", "path argument is required", EmptyStr)
  /\ UNCHANGED <<cache, mu, now, workingDir, args, doc, ret, cmds, prev,
                 pureVars, req, tempDir, dirs, deferred>>

\* server.go:122-127
RejectWorkingDir(r) ==
  /\ pc[r] = "check"
  /\ PathGiven(r)
  /\ ~WorkingDirGood(r)
  /\ Return(r, "error", "invalid working directory", EmptyStr)
  /\ UNCHANGED <<cache, mu, now, workingDir, args, doc, ret, cmds, prev,
                 pureVars, req, tempDir, dirs, deferred>>

\* server.go:130-139
RejectFlag(r) ==
  /\ pc[r] = "check"
  /\ PathGiven(r)
  /\ WorkingDirGood(r)
  /\ ~FlagsGood(r)
  /\ Return(r, "error", "unsupported flag", EmptyStr)
  /\ UNCHANGED <<cache, mu, now, workingDir, args, doc, ret, cmds, prev,
                 pureVars, req, tempDir, dirs, deferred>>

\* server.go:142-149: validatePath fails; with a list of subdirectories the
\* result is a text that names them, with none it is an error result.
RejectPath(r) ==
  /\ pc[r] = "check"
  /\ PathGiven(r)
  /\ WorkingDirGood(r)
  /\ FlagsGood(r)
  /\ validatePath(req[r].path, req[r].workingDir).err # ""
  /\ LET v == validatePath(req[r].path, req[r].workingDir) IN
       IF v.subDirs # << >>
       THEN Return(r, "text", "No Go files found", Join(v.subDirs, <<"\n">>))
       ELSE Return(r, "error", v.err, EmptyStr)
  /\ UNCHANGED <<cache, mu, now, workingDir, args, doc, ret, cmds, prev,
                 pureVars, req, tempDir, dirs, deferred>>

\* server.go:150-153: the request is accepted.
Accept(r) ==
  /\ pc[r] = "check"
  /\ PathGiven(r)
  /\ WorkingDirGood(r)
  /\ FlagsGood(r)
  /\ validatePath(req[r].path, req[r].workingDir).err = ""
  /\ pc' = [pc EXCEPT ![r] =
       IF req[r].workingDir = EmptyStr THEN "mkdir" ELSE "args"]
  /\ UNCHANGED <<cache, mu, now, workingDir, args, doc, ret, cmds, prev,
                 pureVars, handlerVars>>

Started(r, cmd, argv) ==
  cmds' = [cmds EXCEPT ![r] =
    Append(@, [cmd |-> cmd, dir |-> tempDir[r], argv |-> argv])]

\* server.go:275: os.MkdirTemp makes a directory with a name not in use.
MkdirTemp(r) ==
  /\ pc[r] = "mkdir"
  /\ \E d \in TempNames \ dirs :
       /\ dirs' = dirs \cup {d}
       /\ tempDir' = [tempDir EXCEPT ![r] = d]
  /\ pc' = [pc EXCEPT ![r] = "modinit"]
  /\ UNCHANGED <<cache, mu, now, workingDir, args, doc, ret, cmds, prev,
                 pureVars, req, deferred, hres>>

\* server.go:276-278, 154-157: os.MkdirTemp fails.
MkdirTempFail(r) ==
  /\ pc[r] = "mkdir"
  /\ Return(r, "error", "failed to create temporary project",
            <<"failed to create temp directory">>)
  /\ UNCHANGED <<cache, mu, now, workingDir, args, doc, ret, cmds, prev,
                 pureVars, req, tempDir, dirs, deferred>>

\* server.go:280-288: go mod init succeeds.
GoModInitOK(r) ==
  /\ pc[r] = "modinit"
  /\ Started(r, "mod init", <<TempModule>>)
  /\ pc' = [pc EXCEPT ![r] =
       IF isStdLib(ResolvedPath(r)) THEN "created" ELSE "get"]
  /\ UNCHANGED <<cache, mu, now, workingDir, args, doc, ret, prev,
                 pureVars, handlerVars>>

\* server.go:280-288, 154-157: go mod init exits non-zero or is killed at
\* the timeout; the directory is removed.
GoModInitFail(r) ==
  /\ pc[r] = "modinit"
  /\ Started(r, "mod init", <<TempModule>>)
  /\ dirs' = RemoveAll(dirs, tempDir[r])
  /\ \E err \in CommandErrors, out \in CommandOutputs :
       Return(r, "error", "failed to create temporary project",
              initError(err, out))
  /\ UNCHANGED <<cache, mu, now, workingDir, args, doc, ret, prev,
                 pureVars, req, tempDir, deferred>>

\* server.go:291-301: go get succeeds.
GoGetOK(r) ==
  /\ pc[r] = "get"
  /\ Started(r, "get", <<ResolvedPath(r)>>)
  /\ pc' = [pc EXCEPT ![r] = "created"]
  /\ UNCHANGED <<cache, mu, now, workingDir, args, doc, ret, prev,
                 pureVars, handlerVars>>

\* server.go:291-300, 154-157: go get exits non-zero or is killed at the
\* timeout; the directory is removed.
GoGetFail(r) ==
  /\ pc[r] = "get"
  /\ Started(r, "get", <<ResolvedPath(r)>>)
  /\ dirs' = RemoveAll(dirs, tempDir[r])
  /\ \E err \in CommandErrors, out \in CommandOutputs :
       Return(r, "error", "failed to create temporary project",
              getError(ResolvedPath(r), err, out))
  /\ UNCHANGED <<cache, mu, now, workingDir, args, doc, ret, prev,
                 pureVars, req, tempDir, deferred>>

\* server.go:303, 158-159: createTempProject returns the directory and its
\* removal is deferred.
Provisioned(r) ==
  /\ pc[r] = "created"
  /\ deferred' = [deferred EXCEPT ![r] = Append(@, tempDir[r])]
  /\ pc' = [pc EXCEPT ![r] = "args"]
  /\ UNCHANGED <<cache, mu, now, workingDir, args, doc, ret, cmds, prev,
                 pureVars, req, tempDir, dirs, hres>>

\* server.go:163-170: the arguments are built and runGoDoc is called.
CallRunGoDoc(r) ==
  /\ pc[r] = "args"
  /\ Enter(r, HandlerDir(r), BuildArgs(r))
  /\ UNCHANGED <<cache, mu, now, doc, cmds, restVars>>

\* server.go:171-173
RunGoDocFailed(r) ==
  /\ pc[r] = "ret"
  /\ ret[r].kind = "err"
  /\ Return(r, "error", "go doc failed", EmptyStr)
  /\ UNCHANGED <<cache, mu, now, workingDir, args, doc, ret, cmds, prev,
                 pureVars, req, tempDir, dirs, deferred>>

\* server.go:176-181: the output is paginated; a panic of paginate leaves
\* the handler without a result.
Paginate(r) ==
  /\ pc[r] = "ret"
  /\ ret[r].kind = "ok"
  /\ LET pg == paginate(ret[r].content, req[r].page, req[r].pageSize) IN
       CASE pg.kind = "ok" -> Return(r, "text", "", pg.text)
         [] pg.kind = "err" -> Return(r, "error", "page exceeds total pages", pg.text)
         [] pg.kind = "panic" -> Return(r, "panic", "", EmptyStr)
  /\ UNCHANGED <<cache, mu, now, workingDir, args, doc, ret, cmds, prev,
                 pureVars, req, tempDir, dirs, deferred>>

RECURSIVE RunDeferred(_, _)
\* The deferred removals, last first.
RunDeferred(fs, ds) ==
  IF ds = << >> THEN fs
  ELSE RunDeferred(RemoveAll(fs, ds[Len(ds)]), SubSeq(ds, 1, Len(ds) - 1))

\* The deferred calls run (server.go:158) and the handler has returned.
Unwind(r) ==
  /\ pc[r] = "unwind"
  /\ dirs' = RunDeferred(dirs, deferred[r])
  /\ deferred' = [deferred EXCEPT ![r] = << >>]
  /\ pc' = [pc EXCEPT ![r] = "done"]
  /\ UNCHANGED <<cache, mu, now, workingDir, args, doc, ret, cmds, prev,
                 pureVars, req, tempDir, hres>>

\* The result has been delivered.
Done(r) ==
  /\ pc[r] = "done"
  /\ pc' = [pc EXCEPT ![r] = "idle"]
  /\ workingDir' = [workingDir EXCEPT ![r] = EmptyStr]
  /\ args' = [args EXCEPT ![r] = << >>]
  /\ doc' = [doc EXCEPT ![r] = EmptyStr]
  /\ ret' = [ret EXCEPT ![r] = NoRet]
  /\ cmds' = [cmds EXCEPT ![r] = << >>]
  /\ prev' = [prev EXCEPT ![r] = NoPrev]
  /\ req' = [req EXCEPT ![r] = NoValue]
  /\ tempDir' = [tempDir EXCEPT ![r] = EmptyStr]
  /\ hres' = [hres EXCEPT ![r] = NoResult]
  /\ UNCHANGED <<cache, mu, now, pureVars, dirs, deferred>>

createTempProject(r) ==
  \/ MkdirTemp(r) \/ MkdirTempFail(r) \/ GoModInitOK(r) \/ GoModInitFail(r)
  \/ GoGetOK(r) \/ GoGetFail(r)

\* What the handler does with a request it has been given.
handlerSteps(r) ==
  \/ RejectMissingPath(r) \/ RejectWorkingDir(r)
  \/ RejectFlag(r) \/ RejectPath(r) \/ Accept(r)
  \/ createTempProject(r) \/ Provisioned(r) \/ CallRunGoDoc(r)
  \/ runGoDoc(r)
  \/ RunGoDocFailed(r) \/ Paginate(r) \/ Unwind(r) \/ Done(r)

handleGetDoc(r) == HandleGetDoc(r) \/ handlerSteps(r)

HandlerNext ==
  \/ Tick
  \/ \E r \in HReqs : handleGetDoc(r)

SpecHandler == Init /\ [][HandlerNext]_vars

(***************************************************************************)
(* Two requests served at once (server.ServeStdio runs each tool call in   *)
(* its own goroutine), with the assumptions under which they make          *)
(* progress: a goroutine that can take a step takes it, a command started  *)
(* with exec.CommandContext ends (by itself or killed at the deadline of   *)
(* its context), and a goroutine blocked in gs.mu.Lock() gets the mutex if *)
(* it is released again and again (sync.Mutex hands a starving waiter the  *)
(* lock).  The requests are looked at over a stretch in which the clock    *)
(* stands still, in a server that has answered one request cacheTTL ago.   *)
(***************************************************************************)

\* What the first request can be: for an external package without a working
\* directory, and one for each way of being refused.
ConcurrentInputs ==
  {Request(PathExt, TargetR, EmptyStr, <<FlagU>>),
   [Request(EmptyStr, EmptyStr, EmptyStr, << >>) EXCEPT !.hasPath = FALSE],
   Request(PathIo, EmptyStr, DirN, << >>),
   Request(PathIo, EmptyStr, DirW, <<PathFlag>>),
   Request(<<".">>, EmptyStr, EmptyStr, << >>)}

\* The second request is for the standard package in the module.
ContenderInputs == {Request(PathIo, EmptyStr, DirW, << >>)}

\* The server cacheTTL after it has cached the standard package's
\* documentation for the module.
ConcurrentInit ==
  /\ cache = (cacheKey(DirW, <<PathIo>>) :>
                [content |-> <<"a">>, timestamp |-> 0])
  /\ mu = NoReq
  /\ now = cacheTTL
  /\ pc = [r \in Reqs |-> "idle"]
  /\ workingDir = [r \in Reqs |-> EmptyStr]
  /\ args = [r \in Reqs |-> << >>]
  /\ doc = [r \in Reqs |-> EmptyStr]
  /\ ret = [r \in Reqs |-> NoRet]
  /\ cmds = [r \in Reqs |-> << >>]
  /\ prev = [r \in Reqs |-> NoPrev]
  /\ req = [r \in Reqs |-> NoValue]
  /\ tempDir = [r \in Reqs |-> EmptyStr]
  /\ dirs = {}
  /\ deferred = [r \in Reqs |-> << >>]
  /\ hres = [r \in Reqs |-> NoResult]
  /\ PureIdle

\* A request arrives while another may be in progress.
HandleGetDocConcurrent(r) ==
  /\ pc[r] = "idle"
  /\ \E in \in IF r \in HReqs THEN ConcurrentInputs ELSE ContenderInputs :
       req' = [req EXCEPT ![r] = in]
  /\ pc' = [pc EXCEPT ![r] = "check"]
  /\ UNCHANGED <<cache, mu, now, workingDir, args, doc, ret, cmds, prev,
                 pureVars, tempDir, dirs, deferred, hres>>

ConcurrentNext ==
  \E r \in Reqs : HandleGetDocConcurrent(r) \/ handlerSteps(r)

Progress ==
  \A r \in Reqs :
    /\ WF_vars(handlerSteps(r))
    /\ SF_vars(Lock1(r))
    /\ SF_vars(Lock2(r))

SpecConcurrent == ConcurrentInit /\ [][ConcurrentNext]_vars /\ Progress

(***************************************************************************)
(* createTempProject (server.go:274-304) on its own, as handleGetDoc calls *)
(* it for a request that has no working directory and an import path.      *)
(***************************************************************************)

\* Import paths: an ordinary character, the dot and the slash.  A path that
\* begins with "." or "/" is not an import path for validatePath.
ImportPaths ==
  {p \in StrsUpTo({"a", ".", "/"}, MaxImportLen) :
     ~HasPrefix(p, <<".">>) /\ ~HasPrefix(p, <<"/">>)}

\* The handler has resolved such a request (server.go:141-153) and is about
\* to call createTempProject.
TempInit ==
  /\ cache = << >>
  /\ mu = NoReq
  /\ now = 0
  /\ workingDir = [r \in Reqs |-> EmptyStr]
  /\ args = [r \in Reqs |-> << >>]
  /\ doc = [r \in Reqs |-> EmptyStr]
  /\ ret = [r \in Reqs |-> NoRet]
  /\ cmds = [r \in Reqs |-> << >>]
  /\ prev = [r \in Reqs |-> NoPrev]
  /\ tempDir = [r \in Reqs |-> EmptyStr]
  /\ dirs = {}
  /\ deferred = [r \in Reqs |-> << >>]
  /\ hres = [r \in Reqs |-> NoResult]
  /\ PureIdle
  /\ \E p \in ImportPaths, r \in HReqs :
       /\ req = [q \in Reqs |->
            IF q = r THEN Request(p, EmptyStr, EmptyStr, << >>) ELSE NoValue]
       /\ pc = [q \in Reqs |-> IF q = r THEN "mkdir" ELSE "idle"]

TempNext ==
  \E r \in HReqs : createTempProject(r) \/ Provisioned(r) \/ Unwind(r)

SpecTempProject == TempInit /\ [][TempNext]_vars

(***************************************************************************)
(* validatePath alone, applied to a path and a working directory.          *)
(***************************************************************************)

RefStrs == StrsUpTo({".", "/", "s", "w", "g"}, MaxRefLen)

WorkDirs == {EmptyStr, DirW, DirE, DirG, DirV, DirN, FileF}

ValidateInit ==
  /\ EngineInit
  /\ fn = "validatePath"
  /\ input \in [pkgPath : RefStrs, workingDir : WorkDirs]
  /\ output = NoValue
  /\ acc = << >>

ApplyValidatePath ==
  /\ fn = "validatePath"
  /\ output = NoValue
  /\ output' = validatePath(input.pkgPath, input.workingDir)
  /\ UNCHANGED <<fn, input, acc, engineVars, handlerVars>>

ValidateNext == ApplyValidatePath

SpecValidate == ValidateInit /\ [][ValidateNext]_vars

(***************************************************************************)
(* readModuleName alone, applied to a go.mod that is absent or made of a   *)
(* few pieces: the keyword, blanks, line ends and names.                   *)
(***************************************************************************)

GoModPieces ==
  { <<"m", "o", "d", "u", "l", "e">>, <<" ">>, <<"\t">>, <<"\n">>, <<"x">>,
    <<"/", "/", "c">> }

GoModContents ==
  {Join(ps, EmptyStr) : ps \in UNION {[1..k -> GoModPieces] : k \in 0..MaxPieces}}

ModuleInit ==
  /\ EngineInit
  /\ fn = "readModuleName"
  /\ input \in [readable : BOOLEAN, content : GoModContents]
  /\ input.readable \/ input.content = EmptyStr
  /\ output = NoValue
  /\ acc = << >>

ApplyReadModuleName ==
  /\ fn = "readModuleName"
  /\ output = NoValue
  /\ output' = readModuleNameIn(
                 IF input.readable THEN (GoModName :> input.content) ELSE << >>,
                 GoModName)
  /\ UNCHANGED <<fn, input, acc, engineVars, handlerVars>>

ModuleNext == ApplyReadModuleName

SpecModule == ModuleInit /\ [][ModuleNext]_vars

(***************************************************************************)
(* formatGoDocError (server.go:357-379), applied to the output of a failed *)
(* go doc run.  The error it returns is given by its class, the number of  *)
(* numbered hints in its message, and what the message ends with.          *)
(***************************************************************************)

RECURSIVE Contains(_, _)
\* strings.Contains
Contains(s, sub) ==
  IF HasPrefix(s, sub) THEN TRUE
  ELSE IF s = << >> THEN FALSE
  ELSE Contains(Tail(s), sub)

NoSuchPackage ==
  <<"n", "o", " ", "s", "u", "c", "h", " ", "p", "a", "c", "k", "a", "g",
    "e">>

NotInStd ==
  <<"i", "s", " ", "n", "o", "t", " ", "i", "n", " ", "s", "t", "d">>

NoSuchSymbol ==
  <<"n", "o", " ", "s", "u", "c", "h", " ", "s", "y", "m", "b", "o", "l">>

BuildConstraints ==
  <<"b", "u", "i", "l", "d", " ", "c", "o", "n", "s", "t", "r", "a", "i",
    "n", "t", "s", " ", "e", "x", "c", "l", "u", "d", "e", " ", "a", "l",
    "l", " ", "G", "o", " ", "f", "i", "l", "e", "s">>

\* A classification that looks for the symbol message first.
formatGoDocErrorSymbolFirst(out) ==
  IF Contains(out, NoSuchSymbol)
  THEN [class |-> "symbol not found", hints |-> 3, detail |-> "err"]
  ELSE IF Contains(out, NoSuchPackage) \/ Contains(out, NotInStd)
  THEN [class |-> "package not found", hints |-> 4, detail |-> "output"]
  ELSE IF Contains(out, BuildConstraints)
  THEN [class |-> "no Go files for current platform", hints |-> 0, detail |-> "err"]
  ELSE [class |-> "go doc error", hints |-> 0, detail |-> "err and output"]

\* server.go:357-379
formatGoDocError(out) ==
  IF Contains(out, NoSuchPackage) \/ Contains(out, NotInStd)
  THEN [class |-> "package not found", hints |-> 4, detail |-> "output"]
  ELSE IF Contains(out, NoSuchSymbol)
  THEN [class |-> "symbol not found", hints |-> 3, detail |-> "err"]
  ELSE IF Contains(out, BuildConstraints)
  THEN [class |-> "no Go files for current platform", hints |-> 0, detail |-> "err"]
  ELSE [class |-> "go doc error", hints |-> 0, detail |-> "err and output"]

\* The pieces of an output: the messages, whole or in two halves, and other
\* text.
OutputPieces ==
  { <<"n", "o", " ", "s", "u", "c", "h", " ">>,
    <<"p", "a", "c", "k", "a", "g", "e">>,
    <<"s", "y", "m", "b", "o", "l">>,
    NotInStd, BuildConstraints, <<"x", "\n">> }

FailedOutputs ==
  {Join(ps, EmptyStr) : ps \in UNION {[1..k -> OutputPieces] : k \in 0..MaxOutPieces}}

FormatInit ==
  /\ EngineInit
  /\ fn = "formatGoDocError"
  /\ input \in [output : FailedOutputs]
  /\ output = NoValue
  /\ acc = << >>

ApplyFormatGoDocError ==
  /\ fn = "formatGoDocError"
  /\ output = NoValue
  /\ output' = formatGoDocError(input.output)
  /\ UNCHANGED <<fn, input, acc, engineVars, handlerVars>>

FormatNext == ApplyFormatGoDocError

SpecFormat == FormatInit /\ [][FormatNext]_vars

(***************************************************************************)
(* The cache of runGoDoc: size, hits, eviction, failures.                  *)
(***************************************************************************)

\* C1: whenever no request is inside a cache critical section, the cache
\* holds at most maxCacheSize entries.
C1_SizeBounded ==
  mu = NoReq => Size <= maxCacheSize

\* Two overlapping calls have both inserted, the cache is full and the
\* mutex is free.
C1_Witness ==
  /\ mu = NoReq
  /\ Size = maxCacheSize
  /\ \A r \in Reqs : pc[r] = "ret" /\ ret[r].how = "miss"

\* C2, as claimed, in what it says of the extractor: while less than
\* cacheTTL has passed since an identical call inserted its entry and
\* returned, a call issued after that has run no go doc.
C2_RepeatAlwaysHits ==
  \A r \in Reqs :
    \A p \in prev[r].ok :
      now - p.time < cacheTTL => cmds[r] = << >>

\* C2, amended: an insert leaves an entry with the content the inserting
\* call returns, stamped with the time of the insert; and a call whose lookup
\* finds an entry of its key younger than cacheTTL returns that entry's
\* content, runs no go doc and leaves the cache as it is.
C2_LiveEntryIsServed ==
  [][\A r \in Reqs :
       /\ (pc[r] = "store" /\ pc'[r] = "ret") =>
            /\ ret'[r].kind = "ok"
            /\ Key(r) \in DOMAIN cache'
            /\ cache'[Key(r)] = [content |-> ret'[r].content, timestamp |-> now]
       /\ (/\ pc[r] = "lookup" /\ pc'[r] # "lookup"
           /\ Key(r) \in DOMAIN cache
           /\ now - cache[Key(r)].timestamp < cacheTTL) =>
            /\ pc'[r] = "ret"
            /\ ret'[r].kind = "ok"
            /\ ret'[r].content = cache[Key(r)].content
            /\ cmds'[r] = << >>
            /\ cache' = cache]_vars

\* A call issued after an identical call returned is served the same content
\* from an entry that is not new, without running go doc.
C2_Witness ==
  \E r \in Reqs :
    /\ pc[r] = "ret" /\ ret[r].how = "hit" /\ cmds[r] = << >>
    /\ \E p \in prev[r].ok : ret[r].content = p.content
    /\ now - cache[Key(r)].timestamp = cacheTTL - 1

\* C3, as claimed: an insert into a cache holding maxCacheSize entries
\* removes exactly one entry, one whose timestamp is minimal, and leaves
\* maxCacheSize entries.
C3_EvictsOneKeepsSize ==
  [][\A r \in Reqs :
       (pc[r] = "store" /\ pc'[r] = "ret" /\ Size = maxCacheSize) =>
         /\ \E k \in OldestKeys(cache) :
              cache' = Store(Delete(cache, k), Key(r),
                             [content |-> doc[r], timestamp |-> now])
         /\ Cardinality(DOMAIN cache') = maxCacheSize]_vars

\* C4, as claimed: two queries have the same key exactly when their
\* directories are equal and their argument vectors are equal.
C4_KeyInjective ==
  (fn = "cacheKey" /\ output # NoValue) =>
    (output.a = output.b <=> input.a = input.b)

\* C5, as claimed: a failed call returns an error and writes nothing to the
\* cache, and the first call issued for the same inputs after it runs go doc
\* again.
C5_RetryAlwaysRuns ==
  \A r \in Reqs :
    /\ (pc[r] = "ret" /\ ret[r].how = "fail") => ret[r].kind = "err"
    /\ \A k \in DOMAIN cache : cache[k].content \in Contents
    /\ (pc[r] = "ret" /\ prev[r].failed) => cmds[r] # << >>

\* C5, amended: a call whose go doc run fails returns an error and, from the
\* failure on, leaves the cache as it is; every entry written to the cache is
\* written by the insert of a call whose run succeeded, with the content that
\* call returns; and the first call issued for the same inputs after a failed
\* one runs go doc again unless it finds a live entry.
C5_FailureNotCached ==
  /\ [](\A r \in Reqs :
          /\ (pc[r] = "ret" /\ ret[r].how = "fail") => ret[r].kind = "err"
          /\ \A k \in DOMAIN cache : cache[k].content \in Contents
          /\ (pc[r] = "ret" /\ prev[r].failed) =>
               (cmds[r] # << >> \/ ret[r].how = "hit"))
  /\ [][/\ \A r \in Reqs :
            (pc[r] = "wait" /\ pc'[r] = "ret") =>
              (ret'[r].kind = "err" /\ cache' = cache)
        /\ \A k \in DOMAIN cache' :
            (k \notin DOMAIN cache \/ cache'[k] # cache[k]) =>
              \E r \in Reqs :
                /\ pc[r] = "store" /\ Key(r) = k
                /\ cmds[r] # << >> /\ doc[r] \in Contents
                /\ ret'[r].kind = "ok"
                /\ cache'[k].content = ret'[r].content]_vars

\* A call has failed while the cache holds entries, and the first call issued
\* for the same inputs after it has run go doc again.
C5_Witness ==
  \E r, q \in Reqs :
    /\ pc[q] = "ret" /\ ret[q].how = "fail" /\ ret[q].followed
    /\ pc[r] = "ret" /\ prev[r].failed /\ ret[r].how = "miss"
    /\ workingDir[r] = workingDir[q] /\ args[r] = args[q]
    /\ Size = maxCacheSize

(***************************************************************************)
(* handleGetDoc: temporary directories, refused requests, and the          *)
(* arguments given to go doc.                                              *)
(***************************************************************************)

ListedFlags ==
  { <<"-", "a", "l", "l">>, <<"-", "s", "r", "c">>, <<"-", "u">>,
    <<"-", "s", "h", "o", "r", "t">>, <<"-", "c">> }

\* A request without a path, with a flag off the list, or with a working
\* directory that is not an existing directory.
Refused(q) ==
  \/ ~q.hasPath
  \/ \E i \in 1..Len(q.cmdFlags) : q.cmdFlags[i] \notin ListedFlags
  \/ q.workingDir # EmptyStr /\ q.workingDir \notin {DirW, DirE}

\* C7: such a request gets an error result, and from its arrival to its
\* return no external command is started for it, no temporary directory is
\* made and the cache does not change.
C7_RefusedBeforeAnyCommand ==
  /\ [](\A r \in HReqs :
          (req[r] # NoValue /\ Refused(req[r])) =>
             /\ pc[r] \in {"check", "unwind", "done"}
             /\ cmds[r] = << >>
             /\ tempDir[r] = EmptyStr
             /\ pc[r] \in {"unwind", "done"} => hres[r].kind = "error")
  /\ [][\A r \in HReqs :
          (req[r] # NoValue /\ Refused(req[r])) =>
             cache' = cache /\ dirs' = dirs /\ tempDir' = tempDir]_vars

C7_Witness ==
  \E r \in HReqs :
    /\ pc[r] = "done"
    /\ req[r] # NoValue
    /\ req[r].cmdFlags = <<FlagU, PathFlag>>
    /\ req[r].workingDir = DirW
    /\ hres[r].kind = "error"
    /\ Size = maxCacheSize

\* C8: every argument given to go doc that begins with "-" is one of the
\* listed flags.
C8_OnlyListedFlags ==
  \A r \in HReqs : \A i \in 1..Len(cmds[r]) :
    cmds[r][i].cmd = "doc" =>
      \A j \in 1..Len(cmds[r][i].argv) :
        HasPrefix(cmds[r][i].argv[j], <<"-">>) => cmds[r][i].argv[j] \in ListedFlags

(***************************************************************************)
(* paginate: the page arithmetic and the round trip.                       *)
(***************************************************************************)

\* The positions of the newlines of a content, and the position of the k-th
\* (0 before the first line, one past the end after the last).
NewlinesOf(content) == {i \in 1..Len(content) : content[i] = "\n"}

LineCount(content) == Cardinality(NewlinesOf(content)) + 1

NthNewline(content, k) ==
  IF k = 0 THEN 0
  ELSE IF k > Cardinality(NewlinesOf(content)) THEN Len(content) + 1
  ELSE CHOOSE i \in NewlinesOf(content) :
         Cardinality({j \in NewlinesOf(content) : j <= i}) = k

\* Lines first..last of a content, as they stand in it.
LinesOf(content, first, last) ==
  SubSeq(content, NthNewline(content, first - 1) + 1,
                  NthNewline(content, last) - 1)

\* The least t with t * n >= L.
CeilDiv(L, n) ==
  CHOOSE t \in 0..L : t * n >= L /\ \A u \in 0..(t - 1) : u * n < L

\* The header of a page and the content part after it.
HeaderOf(text) == SubSeq(text, 1, IndexOf(text, "\n") - 1)

ContentPart(text) == SubSeq(text, IndexOf(text, "\n") + 2, Len(text))

IsDigit(c) == \E d \in 1..10 : DigitChars[d] = c

DigitVal(c) == (CHOOSE d \in 1..10 : DigitChars[d] = c) - 1

RECURSIVE NumbersFrom(_, _, _)
NumbersFrom(s, cur, inNum) ==
  IF s = << >> THEN (IF inNum THEN <<cur>> ELSE << >>)
  ELSE IF IsDigit(Head(s))
  THEN NumbersFrom(Tail(s), (IF inNum THEN cur * 10 ELSE 0) + DigitVal(Head(s)), TRUE)
  ELSE (IF inNum THEN <<cur>> ELSE << >>) \o NumbersFrom(Tail(s), 0, FALSE)

\* The numbers a text shows, in order.
NumbersIn(s) == NumbersFrom(s, 0, FALSE)

\* The reader began at page 1 and has been told that there is no further page.
ReadAll ==
  /\ fn = "paginate"
  /\ output # NoValue
  /\ output.kind = "err"
  /\ input.first = 1
  /\ input.pageSize >= 1

Parts == [i \in 1..Len(acc) |-> ContentPart(acc[i])]

\* C9: for page sizes >= 1, with L the number of lines of the content,
\* totalPages is max(1, ceil(L / pageSize)); paginate fails exactly when the
\* page exceeds totalPages; otherwise page p holds exactly the lines
\* (p-1)*pageSize+1 .. min(p*pageSize, L), whole, and its header shows p,
\* totalPages, these two line numbers and L; the ranges of the pages
\* 1..totalPages follow one another from 1 to L.
C9_PageArithmetic ==
  /\ (fn = "paginate" /\ output # NoValue /\ input.pageSize >= 1) =>
       LET c == input.content
           n == input.pageSize
           L == LineCount(c)
           t == IF CeilDiv(L, n) < 1 THEN 1 ELSE CeilDiv(L, n)
           p == IF input.page < 1 THEN 1 ELSE input.page
           first == (p - 1) * n + 1
           last == IF p * n < L THEN p * n ELSE L
       IN  /\ output.kind \in {"ok", "err"}
           /\ output.kind = "err" <=> input.page > t
           /\ output.kind = "ok" =>
                /\ NumbersIn(HeaderOf(output.text)) = <<p, t, first, last, L>>
                /\ ContentPart(output.text) = LinesOf(c, first, last)
  /\ ReadAll =>
       LET L == LineCount(input.content)
           range(i) == NumbersIn(HeaderOf(acc[i]))
       IN  /\ Len(acc) = input.page - 1
           /\ range(1)[3] = 1
           /\ range(Len(acc))[4] = L
           /\ \A i \in 1..Len(acc) : range(i)[3] <= range(i)[4]
           /\ \A i \in 2..Len(acc) : range(i)[3] = range(i - 1)[4] + 1

C9_Witness ==
  /\ ReadAll
  /\ input.pageSize = 2
  /\ LineCount(input.content) = 5
  /\ Len(acc) = 3

\* C10, as claimed: the content parts of the pages 1..totalPages, one after
\* the other, are the content.
C10_ConcatRoundTrip == ReadAll => Join(Parts, EmptyStr) = input.content

\* C10, amended: the content parts of the pages 1..totalPages, with one
\* newline between each two, are the content.
C10_JoinRoundTrip ==
  ReadAll => /\ Len(acc) = input.page - 1
             /\ Join(Parts, <<"\n">>) = input.content

C10_Witness ==
  /\ ReadAll
  /\ input.content = <<"a", "\n", "b", "\n">>
  /\ input.pageSize = 1
  /\ Len(acc) = 3


\* C11: for every content and page size >= 1, a page number below 1 gets
\* what page 1 gets, and that is a page, not an error.
C11_PageBelowOneIsPageOne ==
  (fn = "paginate" /\ output # NoValue /\ input.pageSize >= 1 /\ input.page < 1) =>
     /\ output.kind = "ok"
     /\ output = paginate(input.content, 1, input.pageSize)
     /\ NumbersIn(HeaderOf(output.text))[1] = 1
     /\ ContentPart(output.text) =
          LinesOf(input.content, 1,
                  IF input.pageSize < LineCount(input.content)
                  THEN input.pageSize ELSE LineCount(input.content))

C11_Witness ==
  /\ fn = "paginate"
  /\ output # NoValue
  /\ input.page = 0 - 1
  /\ input.pageSize = 2
  /\ LineCount(input.content) = 3
  /\ output.kind = "ok"

(***************************************************************************)
(* validatePath: relative paths, absolute paths, import paths.             *)
(***************************************************************************)

\* The modules the directories declare.
ModuleW == <<"m">>
ModuleV == <<"x", "/", "y">>

GoModOf(dir) == dir \o <<"/", "g", "o", ".", "m", "o", "d">>

\* validatePath has been applied.
Validated == fn = "validatePath" /\ output # NoValue

\* A path of one or more segments of letters, one "/" between each two.
PlainPath(s) ==
  /\ s # << >>
  /\ s[1] # "/"
  /\ s[Len(s)] # "/"
  /\ \A i \in 1..Len(s) : s[i] # "."
  /\ \A i \in 1..(Len(s) - 1) : ~(s[i] = "/" /\ s[i + 1] = "/")

\* C12: a path that begins with "." fails, with no file read, when there is
\* no working directory; under a working directory whose go.mod declares M,
\* "." gives M and "./" followed by a plain path gives M, "/" and that path;
\* under a working directory whose go.mod is absent or has no module line it
\* fails.
C12_RelativePath ==
  (Validated /\ HasPrefix(input.pkgPath, <<".">>)) =>
    LET wd == input.workingDir
        M == IF wd = DirW THEN ModuleW ELSE ModuleV
        rest == SubSeq(input.pkgPath, 3, Len(input.pkgPath))
    IN  /\ wd = EmptyStr =>
             /\ output.err = "working_dir is required"
             /\ output.reads = << >>
        /\ wd \in {DirW, DirV} =>
             /\ output.err = ""
             /\ output.reads = <<GoModOf(wd)>>
             /\ input.pkgPath = <<".">> => output.path = M
             /\ (HasPrefix(input.pkgPath, <<".", "/">>) /\ PlainPath(rest)) =>
                  output.path = M \o <<"/">> \o rest
        /\ wd \in {DirE, DirG, DirN, FileF} =>
             /\ output.err = "failed to read go.mod in working directory"
             /\ output.path = EmptyStr

C12_Witness ==
  /\ Validated
  /\ input.pkgPath = <<".", "/", "s", "/", "w">>
  /\ input.workingDir = DirV
  /\ output.path = <<"x", "/", "y", "/", "s", "/", "w">>

\* C13: an absolute path fails, with no file read, when a working directory
\* is given and differs from it; otherwise the go.mod in it is read and the
\* result is the module it declares, or a failure when it declares none.
C13_AbsolutePath ==
  (Validated /\ HasPrefix(input.pkgPath, <<"/">>)) =>
    LET wd == input.workingDir
        P == input.pkgPath
    IN  /\ (wd # EmptyStr /\ wd # P) =>
             /\ output.err = "absolute path must match working directory"
             /\ output.reads = << >>
        /\ (wd = EmptyStr \/ wd = P) =>
             /\ P = DirW =>
                  /\ output.err = ""
                  /\ output.path = ModuleW
                  /\ output.reads = <<GoModOf(DirW)>>
             /\ (PlainPath(Tail(P)) /\ P # DirW) =>
                  /\ output.err = "failed to read go.mod"
                  /\ output.path = EmptyStr
                  /\ output.reads = <<GoModOf(P)>>

C13_Witness ==
  /\ Validated
  /\ input.pkgPath = DirW
  /\ input.workingDir = DirW
  /\ output.path = ModuleW

\* C14: a path that begins with neither "." nor "/" is returned as it is,
\* with no error, a nil list of subdirectories and no file read, whatever
\* the working directory.
C14_ImportPathUnchanged ==
  (Validated /\ ~HasPrefix(input.pkgPath, <<".">>)
             /\ ~HasPrefix(input.pkgPath, <<"/">>)) =>
    /\ output.path = input.pkgPath
    /\ output.err = ""
    /\ output.subDirs = << >>
    /\ output.reads = << >>

C14_Witness ==
  /\ Validated
  /\ input.pkgPath = <<"s", "/", "/", "w", ".">>
  /\ input.workingDir = DirN
  /\ output.path = input.pkgPath

(***************************************************************************)
(* readModuleName: the line and the token it takes.                        *)
(***************************************************************************)

Blank(c) == c \in {" ", "\t", "\r", "\n"}

\* A line without the blanks around it.
Unpadded(line) ==
  LET solid == {i \in 1..Len(line) : ~Blank(line[i])} IN
  IF solid = {} THEN EmptyStr
  ELSE SubSeq(line, CHOOSE i \in solid : \A j \in solid : i <= j,
                    CHOOSE i \in solid : \A j \in solid : j <= i)

\* The line is a module declaration: the keyword, then a blank.
Declares(line) ==
  LET t == Unpadded(line) IN
  /\ Len(t) >= 7
  /\ SubSeq(t, 1, 6) = <<"m", "o", "d", "u", "l", "e">>
  /\ Blank(t[7])

\* The second run of non-blank characters of a declaration.
DeclaredName(line) ==
  LET t == Unpadded(line)
      from == CHOOSE i \in 7..Len(t) :
                ~Blank(t[i]) /\ \A j \in 7..(i - 1) : Blank(t[j])
      to == IF \E i \in from..Len(t) : Blank(t[i])
            THEN (CHOOSE i \in from..Len(t) :
                    Blank(t[i]) /\ \A j \in from..(i - 1) : ~Blank(t[j])) - 1
            ELSE Len(t)
  IN  SubSeq(t, from, to)

\* C15: readModuleName returns the second token of the first line that,
\* without the blanks around it, begins with the keyword and a blank, and
\* fails when the file cannot be read or has no such line.
C15_SecondTokenOfModuleLine ==
  (fn = "readModuleName" /\ output # NoValue) =>
    LET c == input.content
        decls == {k \in 1..LineCount(c) : Declares(LinesOf(c, k, k))}
    IN  IF input.readable /\ decls # {}
        THEN /\ output.err = ""
             /\ output.name =
                  DeclaredName(LinesOf(c, CHOOSE k \in decls : \A j \in decls : k <= j,
                                          CHOOSE k \in decls : \A j \in decls : k <= j))
        ELSE output.err # ""

(***************************************************************************)
(* handleGetDoc: directories without Go files.                             *)
(***************************************************************************)

\* The directory a request points at: the working directory for ".", the
\* path itself when it is absolute.
Location(q) == IF q.path = <<".">> THEN q.workingDir ELSE q.path

\* C16: a request that points at a directory without Go files but with
\* packages in subdirectories gets a text result that lists them, not an
\* error; and validatePath gives no list together with a resolved path.
C16_SubdirectoriesListed ==
  \A r \in HReqs :
    (pc[r] = "done" /\ req[r].hasPath /\ ~Refused(req[r])
       /\ req[r].workingDir = Location(req[r])
       /\ Location(req[r]) \in DOMAIN PackagesBelow) =>
      /\ hres[r].kind = "text"
      /\ hres[r].msg = "No Go files found"
      /\ hres[r].text = Join(PackagesBelow[Location(req[r])], <<"\n">>)
      /\ LET v == validatePath(req[r].path, req[r].workingDir) IN
           v.subDirs # << >> => v.err # ""

(***************************************************************************)
(* formatGoDocError: the classes and their order.                          *)
(***************************************************************************)

\* The text occurs somewhere in the output.
Occurs(text, out) ==
  \E i \in 1..(Len(out) - Len(text) + 1) :
    \A j \in 1..Len(text) : out[i + j - 1] = text[j]

\* C17: an output with "no such package" or "is not in std" gives the
\* package-not-found error with its four hints; otherwise one with "no such
\* symbol" gives symbol-not-found; otherwise one with "build constraints
\* exclude all Go files" gives the platform error; otherwise the generic
\* error that carries the output.
C17_ClassesInOrder ==
  (fn = "formatGoDocError" /\ output # NoValue) =>
    LET out == input.output
        package == Occurs(NoSuchPackage, out) \/ Occurs(NotInStd, out)
        symbol == Occurs(NoSuchSymbol, out)
        platform == Occurs(BuildConstraints, out)
    IN  /\ package => output.class = "package not found" /\ output.hints = 4
        /\ (~package /\ symbol) => output.class = "symbol not found"
        /\ (~package /\ ~symbol /\ platform) =>
             output.class = "no Go files for current platform"
        /\ (~package /\ ~symbol /\ ~platform) =>
             output.class = "go doc error" /\ output.detail = "err and output"

C17_Witness ==
  /\ fn = "formatGoDocError"
  /\ output # NoValue
  /\ Occurs(NoSuchSymbol, input.output)
  /\ Occurs(NotInStd, input.output)
  /\ output.class = "package not found"

(***************************************************************************)
(* handleGetDoc: every request gets a result.                              *)
(***************************************************************************)

\* C18: whatever the request, handleGetDoc ends by returning a text result
\* or an error result; it never ends in a panic.
C18_AlwaysAResult ==
  \A r \in HReqs : pc[r] = "done" => hres[r].kind \in {"text", "error"}

(***************************************************************************)
(* runGoDoc: the mutex.                                                    *)
(***************************************************************************)

\* The requests between a Lock and its Unlock.
InCriticalSection == {r \in Reqs : pc[r] \in {"lookup", "store"}}

\* C19: at most one request is between a Lock and its Unlock, and it is the
\* one that holds the mutex; the cache changes only in a step of that
\* request; and a request whose go doc is being started or is running does
\* not hold the mutex, which is free unless a request is in its critical
\* section.
C19_MutexGuardsCacheOnly ==
  /\ [](/\ Cardinality(InCriticalSection) <= 1
        /\ \A r \in Reqs : mu = r <=> r \in InCriticalSection
        /\ \A r \in Reqs : pc[r] \in {"exec", "wait"} => mu # r
        /\ InCriticalSection = {} => mu = NoReq)
  /\ [][cache' # cache =>
          /\ mu \in InCriticalSection
          /\ pc'[mu] # pc[mu]
          /\ \A q \in Reqs \ {mu} : pc'[q] = pc[q]]_vars

C19_Witness ==
  \E r, q \in Reqs :
    /\ pc[q] = "wait"
    /\ pc[r] = "store"
    /\ mu = r
    /\ Key(r) # Key(q)

\* The request r is about to insert after a miss, and the entry of its key is
\* the one that q, a request with the same key, inserted after a miss of its
\* own.  r looked the key up before q inserted: a lookup after that would have
\* hit q's entry or deleted it.  So the two misses overlapped, q wrote first
\* and r writes last.
WritesLast(r, q) ==
  /\ r # q
  /\ pc[r] = "store"
  /\ pc[q] = "ret"
  /\ ret[q].how = "miss"
  /\ Key(q) = Key(r)
  /\ Key(r) \in DOMAIN cache
  /\ cache[Key(r)] = [content |-> ret[q].content, timestamp |-> ret[q].time]

\* C20, as claimed: when the misses of two requests for the same key overlap,
\* each request runs go doc itself, and once both have completed the cache
\* holds one entry for the key whose content is the same whichever request
\* wrote last: the last write leaves the content the first write stored.
C20_SameWhoeverWroteLast ==
  [][\A r, q \in Reqs :
       (WritesLast(r, q) /\ pc'[r] = "ret") =>
         /\ cmds[r] # << >> /\ cmds[q] # << >>
         /\ Key(r) \in DOMAIN cache'
         /\ cache'[Key(r)].content = cache[Key(r)].content]_vars

\* C20, amended: when the misses of two requests for the same key overlap,
\* each request runs go doc itself (a request that has missed and is past the
\* start of its run has a go doc command of its own with its own directory
\* and arguments), and once both have completed the cache holds one entry for
\* the key, whose content and timestamp are those of the request that wrote
\* last, which is the content that request returns.
C20_LastWriterWins ==
  /\ [](\A r \in Reqs :
          pc[r] \in {"wait", "lock2", "store"} =>
            /\ Len(cmds[r]) = 1
            /\ cmds[r][1] = [cmd |-> "doc", dir |-> workingDir[r],
                             argv |-> args[r]])
  /\ [][\A r, q \in Reqs :
          (WritesLast(r, q) /\ pc'[r] = "ret") =>
            /\ cmds[r] # << >> /\ cmds[q] # << >>
            /\ Key(r) \in DOMAIN cache'
            /\ cache'[Key(r)] = [content |-> doc[r], timestamp |-> now]
            /\ ret'[r].content = doc[r]
            /\ ret'[q] = ret[q]]_vars

\* Two requests with the same inputs have both missed and both completed.
\* Neither had returned when the other was issued, and the first entry was
\* still live when the second was written, so the second request looked the
\* key up before the first wrote.  The one that wrote last stored a content
\* other than the one the first had stored.
C20_Witness ==
  \E r, q \in Reqs :
    /\ r # q
    /\ pc[r] = "ret" /\ pc[q] = "ret"
    /\ ret[r].how = "miss" /\ ret[q].how = "miss"
    /\ Key(r) = Key(q)
    /\ workingDir[r] = workingDir[q] /\ args[r] = args[q]
    /\ prev[r].ok = {} /\ prev[q].ok = {}
    /\ ret[r].time - ret[q].time \in 0..(cacheTTL - 1)
    /\ ret[r].content # ret[q].content
    /\ Key(r) \in DOMAIN cache
    /\ cache[Key(r)] = [content |-> ret[r].content, timestamp |-> ret[r].time]

\* C21: a call returns an entry's content without running go doc only if the
\* entry's age is less than cacheTTL.  A lookup that finds an entry whose age
\* is cacheTTL or more does not return it: the same critical section deletes
\* the entry and releases the mutex, and the call goes on as a miss, its next
\* step starting go doc; it returns nothing before go doc has been run.
C21_ExpiredEntryNeverServed ==
  /\ [](\A r \in Reqs :
          /\ (pc[r] = "ret" /\ ret[r].how # "hit") => cmds[r] # << >>
          /\ pc[r] = "lookup" => mu = r)
  /\ [][\A r \in Reqs :
          /\ (pc'[r] = "ret" /\ pc[r] # "ret" /\ cmds'[r] = << >>) =>
               /\ pc[r] = "lookup"
               /\ Key(r) \in DOMAIN cache
               /\ now - cache[Key(r)].timestamp < cacheTTL
               /\ ret'[r].content = cache[Key(r)].content
          /\ (/\ pc[r] = "lookup" /\ pc'[r] # "lookup"
              /\ Key(r) \in DOMAIN cache
              /\ now - cache[Key(r)].timestamp >= cacheTTL) =>
               /\ pc'[r] = "exec"
               /\ cache' = Delete(cache, Key(r))
               /\ mu' = NoReq
               /\ ret'[r] = ret[r]
          /\ (pc[r] = "exec" /\ pc'[r] # "exec") =>
               /\ pc'[r] = "wait"
               /\ Len(cmds'[r]) = Len(cmds[r]) + 1]_vars

\* A call issued after an identical call had inserted its entry found the
\* entry at the age of cacheTTL or more, ran go doc and returned as a miss.
C21_Witness ==
  \E r \in Reqs :
    /\ pc[r] = "ret" /\ ret[r].how = "miss" /\ cmds[r] # << >>
    /\ \E p \in prev[r].ok : ret[r].time - p.time >= cacheTTL

\* The positions of a request in the order of the handler's text: resolving
\* (check), provisioning (mkdir to created), the cached run of go doc (args
\* to ret), paginating (the step from ret), returning.
StageOrder ==
  <<"idle", "check", "mkdir", "modinit", "get", "created", "args", "lock1",
    "lookup", "exec", "wait", "lock2", "store", "ret", "unwind", "done">>

Stage(p) == CHOOSE i \in 1..Len(StageOrder) : StageOrder[i] = p

CommandOrder == <<"mod init", "get", "doc">>

CommandRank(c) == CHOOSE i \in 1..Len(CommandOrder) : CommandOrder[i] = c.cmd

ResolveSucceeded(r) ==
  /\ PathGiven(r) /\ WorkingDirGood(r) /\ FlagsGood(r)
  /\ validatePath(req[r].path, req[r].workingDir).err = ""

CommandsOf(r) == {cmds[r][i].cmd : i \in 1..Len(cmds[r])}

\* C22: within one request the stages run in the order resolve, provision,
\* cached run of go doc, paginate: every step of the request moves it forward
\* in that order, so no stage is entered twice and nothing is retried; the
\* commands it starts are in the order go mod init, go get, go doc with each
\* at most once; it is provisioning or running go doc only if resolving
\* succeeded, and it has a temporary project exactly when it gave no working
\* directory; it paginates only the content of a successful run.
C22_StagesInOrder ==
  /\ [](\A r \in HReqs :
          /\ \A i, j \in 1..Len(cmds[r]) :
               i < j => CommandRank(cmds[r][i]) < CommandRank(cmds[r][j])
          /\ Stage(pc[r]) \in Stage("mkdir")..Stage("ret") => ResolveSucceeded(r)
          /\ Stage(pc[r]) \in Stage("mkdir")..Stage("created") =>
               req[r].workingDir = EmptyStr
          /\ Stage(pc[r]) \in Stage("args")..Stage("ret") =>
               IF req[r].workingDir = EmptyStr
               THEN /\ tempDir[r] \in dirs
                    /\ deferred[r] = <<tempDir[r]>>
                    /\ "mod init" \in CommandsOf(r)
                    /\ workingDir[r] \in {EmptyStr, tempDir[r]}
               ELSE /\ tempDir[r] = EmptyStr
                    /\ deferred[r] = << >>
                    /\ CommandsOf(r) \subseteq {"doc"}
                    /\ workingDir[r] \in {EmptyStr, req[r].workingDir}
          /\ pc[r] = "get" => CommandsOf(r) = {"mod init"})
  /\ [][\A r \in HReqs :
          /\ pc'[r] # pc[r] =>
               \/ pc[r] = "done" /\ pc'[r] = "idle"
               \/ Stage(pc'[r]) > Stage(pc[r])
          /\ (pc[r] = "ret" /\ pc'[r] # "ret") =>
               /\ pc'[r] = "unwind"
               /\ ret[r].kind = "err" =>
                    (hres'[r].kind = "error" /\ hres'[r].msg = "go doc failed")
               /\ ret[r].kind = "ok" =>
                    LET pg == paginate(ret[r].content, req[r].page,
                                       req[r].pageSize) IN
                      pg.kind = "ok" =>
                        (hres'[r].kind = "text" /\ hres'[r].text = pg.text)]_vars

\* A request without a working directory for an external package has been
\* resolved, provisioned with go mod init and go get, run go doc once and
\* returned a page of its output.
C22_Witness ==
  \E r \in HReqs :
    /\ pc[r] = "done"
    /\ hres[r].kind = "text"
    /\ req[r].workingDir = EmptyStr
    /\ [i \in 1..Len(cmds[r]) |-> cmds[r][i].cmd] = CommandOrder

\* The part of p before its first "/" contains a dot.
FirstSegmentHasDot(p) ==
  \E i \in 1..Len(p) : p[i] = "." /\ \A j \in 1..i : p[j] # "/"

EndsWith(s, t) ==
  Len(s) >= Len(t) /\ SubSeq(s, Len(s) - Len(t) + 1, Len(s)) = t

\* The error of a failed command ends with how the command ended and what it
\* had printed.
EmbedsOutput(text) ==
  \E err \in CommandErrors, out \in CommandOutputs :
    EndsWith(text, err \o <<"\noutput: ">> \o out)

ModInitCommand(r) ==
  [cmd |-> "mod init", dir |-> tempDir[r], argv |-> <<TempModule>>]

GetCommand(r) ==
  [cmd |-> "get", dir |-> tempDir[r], argv |-> <<ResolvedPath(r)>>]

\* C23: createTempProject makes a directory with a name not in use and runs
\* go mod init in it; it then runs go get for the identifier exactly when the
\* part of the identifier before the first "/" contains a dot.  When either
\* command fails, the directory is removed and the error names the command and
\* ends with the command's error and output.  It returns the directory only
\* when each command it ran succeeded: the directory then exists, no error
\* has been produced, and the commands run are go mod init and, for an
\* identifier with a dot in its first segment, go get.
C23_TempProject ==
  /\ [](\A r \in HReqs :
          /\ pc[r] = "modinit" => (tempDir[r] \in dirs /\ cmds[r] = << >>)
          /\ pc[r] = "get" =>
               /\ FirstSegmentHasDot(ResolvedPath(r))
               /\ tempDir[r] \in dirs
               /\ cmds[r] = <<ModInitCommand(r)>>
          /\ pc[r] = "created" =>
               /\ tempDir[r] \in dirs
               /\ hres[r] = NoResult
               /\ cmds[r] = IF FirstSegmentHasDot(ResolvedPath(r))
                            THEN <<ModInitCommand(r), GetCommand(r)>>
                            ELSE <<ModInitCommand(r)>>
          /\ (pc[r] = "unwind" /\ deferred[r] = << >>
                /\ hres[r].msg = "failed to create temporary project") =>
               /\ hres[r].kind = "error"
               /\ tempDir[r] \notin dirs
               /\ cmds[r] # << >> =>
                    /\ EmbedsOutput(hres[r].text)
                    /\ hres[r].text[1] =
                         IF cmds[r][Len(cmds[r])].cmd = "get"
                         THEN "failed to get package "
                         ELSE "failed to initialize go.mod: ")
  /\ [][\A r \in HReqs :
          /\ (pc[r] = "mkdir" /\ pc'[r] = "modinit") =>
               (tempDir'[r] \notin dirs /\ tempDir'[r] \in dirs')
          /\ (pc[r] = "modinit" /\ pc'[r] # "modinit") =>
               cmds'[r] = <<ModInitCommand(r)>>
          /\ (pc[r] = "get" /\ pc'[r] # "get") =>
               cmds'[r] = <<ModInitCommand(r), GetCommand(r)>>]_vars

\* go get has failed for an identifier with a dot in its first segment and
\* a slash after it; the directory is gone and the error ends with what go
\* get printed.
C23_Witness ==
  \E r \in HReqs :
    /\ pc[r] = "unwind"
    /\ Len(cmds[r]) = 2
    /\ cmds[r][2].cmd = "get"
    /\ \E i \in 1..Len(ResolvedPath(r)) : ResolvedPath(r)[i] = "/"
    /\ tempDir[r] # EmptyStr
    /\ tempDir[r] \notin dirs
    /\ EndsWith(hres[r].text, <<"\noutput: ", "e">>)

\* A position in which the request is waiting for a command to end.
CommandRunning(r) == pc[r] \in {"modinit", "get", "wait"}

\* The request's command for a temporary project or its go doc run has failed,
\* by a non-zero exit or by being killed at the timeout.
CommandFailed(r) ==
  \/ ret[r].kind = "err"
  \/ /\ hres[r].msg = "failed to create temporary project"
     /\ \E err \in CommandErrors, out \in CommandOutputs :
          EndsWith(hres[r].text, err \o <<"\noutput: ">> \o out)

\* C24: every request returns.  A request that has arrived reaches the end of
\* its handler, so each command it waits for ends and each wait for the mutex
\* ends; a request blocked in Lock gets the mutex; the mutex is held only by
\* a request inside one of the two critical sections, and every step of a
\* holder releases it; and a request whose command failed or timed out has
\* returned an error result and its temporary directory is gone.
C24_EveryRequestReturns ==
  /\ \A r \in Reqs : [](pc[r] = "check" => <>(pc[r] = "done"))
  /\ \A r \in Reqs : [](pc[r] \in {"lock1", "lock2"} => <>(mu = r))
  /\ [](\A r \in Reqs :
          /\ mu = r => pc[r] \in {"lookup", "store"}
          /\ (pc[r] = "done" /\ CommandFailed(r)) =>
               /\ hres[r].kind = "error"
               /\ tempDir[r] \notin dirs
               /\ deferred[r] = << >>)
  /\ [][\A r \in Reqs : (mu = r /\ pc'[r] # pc[r]) => mu' = NoReq]_vars

\* A request that has a temporary project is blocked in Lock while the other
\* request holds the mutex.
C24_Witness ==
  \E r, q \in Reqs :
    /\ pc[r] \in {"lock1", "lock2"}
    /\ tempDir[r] \in dirs
    /\ mu = q
    /\ q # r

\* The keys under which requests without a working directory that had the
\* arguments of r have cached their documentation: one for each temporary
\* directory such a request can have been given.
EarlierKeys(r) == {cacheKey(d, args[r]) : d \in TempNames}

\* C25: documentation is cached for cacheTTL whatever the kind of request.
\* When a request without a working directory looks the cache up while the
\* entry that an earlier request without a working directory, with the same
\* path, target and flags, has inserted is still there and younger than
\* cacheTTL, it is served that entry's content and runs no go doc.
C25_CachedWithoutWorkingDir ==
  [][\A r \in HReqs :
       (/\ pc[r] = "lookup" /\ pc'[r] # "lookup"
        /\ req[r].workingDir = EmptyStr
        /\ \E k \in EarlierKeys(r) \cap DOMAIN cache :
             now - cache[k].timestamp < cacheTTL) =>
         /\ pc'[r] = "ret"
         /\ ret'[r].how = "hit"
         /\ \E k \in EarlierKeys(r) \cap DOMAIN cache :
              ret'[r].content = cache[k].content
         /\ \A i \in 1..Len(cmds'[r]) : cmds'[r][i].cmd # "doc"]_vars

\* The entry of key k is not the same after the step: it is gone, or its
\* content or timestamp differs.
EntryTouched(k) == k \notin DOMAIN cache' \/ cache'[k] # cache[k]

\* C26: an entry changes or disappears only in one of three steps: a request
\* for its key finds it at age cacheTTL or more and deletes it; a request's
\* insert finds the cache full and evicts it; a request for its key replaces
\* it by its insert.  A hit leaves the whole cache as it is, timestamps
\* included, and an insert into a cache that is not full removes no entry
\* and changes no entry of another key.
C26_EntriesChangeOnlyBy ==
  [][/\ \A k \in DOMAIN cache :
          EntryTouched(k) =>
            \E r \in Reqs :
              \/ /\ pc[r] = "lookup" /\ pc'[r] = "exec"
                 /\ Key(r) = k
                 /\ now - cache[k].timestamp >= cacheTTL
                 /\ cache' = Delete(cache, k)
              \/ /\ pc[r] = "store" /\ pc'[r] = "ret"
                 /\ ret'[r].kind = "ok"
                 /\ Size >= maxCacheSize
                 /\ k # Key(r)
                 /\ k \notin DOMAIN cache'
              \/ /\ pc[r] = "store" /\ pc'[r] = "ret"
                 /\ ret'[r].kind = "ok"
                 /\ Key(r) = k
                 /\ k \in DOMAIN cache'
                 /\ cache'[k] = [content |-> doc[r], timestamp |-> now]
     /\ \A r \in Reqs :
          /\ (pc[r] = "lookup" /\ pc'[r] = "ret") => cache' = cache
          /\ (pc[r] = "store" /\ pc'[r] = "ret" /\ Size < maxCacheSize) =>
               /\ DOMAIN cache' = DOMAIN cache \cup {Key(r)}
               /\ \A k \in DOMAIN cache \ {Key(r)} : cache'[k] = cache[k]]_vars

\* A request has been served from a full cache an entry made before the
\* clock's last advance, and the entry still bears the time of its insert.
C26_Witness ==
  \E r \in Reqs :
    /\ pc[r] = "ret" /\ ret[r].how = "hit"
    /\ Size = maxCacheSize
    /\ Key(r) \in DOMAIN cache
    /\ cache[Key(r)].content = ret[r].content
    /\ cache[Key(r)].timestamp < now

\* C27: every path that begins with "." and that validatePath accepts under
\* a working directory whose go.mod declares M resolves to M itself or to a
\* path that begins with M and "/".
C27_RelativeStaysInModule ==
  (Validated /\ HasPrefix(input.pkgPath, <<".">>) /\ output.err = "") =>
    LET M == IF input.workingDir = DirW THEN ModuleW ELSE ModuleV IN
      /\ input.workingDir \in {DirW, DirV}
      /\ \/ output.path = M
         \/ HasPrefix(output.path, M \o <<"/">>)

=============================================================================
